---- MODULE Spec2Model ----
(***************************************************************************)
(* Collection & Receivables Dashboard (finance_titan3.py).                 *)
(*                                                                         *)
(* The program is a Streamlit script: every user interaction (upload,      *)
(* month entry, navigation, executive selection) re-runs the script from   *)
(* its first line in a fresh namespace.  Only the widget values persist    *)
(* between runs.  The model follows one session: the widget values, the    *)
(* script's position (pc), its three data frames and what it has put on    *)
(* the screen.                                                             *)
(*                                                                         *)
(* A cell of a sheet is a record [k, n, d, s]:                             *)
(*   k = "num"      a number n/d (d = 1 for every uploaded cell)           *)
(*   k = "numtext"  text that is the decimal literal of n                  *)
(*   k = "text"     any other text, s                                      *)
(*   k = "nan"      an empty cell (NaN)                                    *)
(*   k = "inf" / "-inf"  the float infinities a division can produce       *)
(* A data frame is [def, cols, rows]: rows is a sequence of functions from *)
(* cols to cells.                                                          *)
(*                                                                         *)
(* Assumed of the uploaded workbook: the Executive_Targets and             *)
(* Invoice_Details sheets carry the columns the views read, and their      *)
(* amount cells are numbers or empty.                                      *)
(***************************************************************************)
EXTENDS Integers, Sequences, FiniteSets, TLC

VARIABLES
    uploaded_file,   \* file_uploader widget: NoFile or the uploaded workbook
    month_input,     \* text_input widget
    page,            \* radio widget
    sel,             \* the Executive selectbox widget's stored value
    pc,              \* position of the script; "idle" = run finished, waiting
    ar_df, exec_df, inv_df,   \* the script's three data frames
    executives,      \* options of the Executive selectbox (line 99)
    selected_exec,   \* value the selectbox returned (line 100)
    messages,        \* st.error / st.warning / st.info shown by this run
    rendered,        \* pages whose view this run has rendered
    body,            \* what the rendered view displays
    memo             \* observer: one earlier result of the pipeline

vars == <<uploaded_file, month_input, page, sel, pc, ar_df, exec_df, inv_df,
          executives, selected_exec, messages, rendered, body, memo>>

----------------------------------------------------------------------------
\* Bounds of the model.
MaxVal == 1          \* uploaded numbers range over -MaxVal..MaxVal
MaxNonZero == 2      \* numeric cells of a row that differ from 0
MaxARRows == 2       \* rows of the AR_Aging sheet
MaxExecRows == 2     \* rows of the Executive_Targets sheet
MaxInvRows == 2      \* rows of the Invoice_Details sheet
MaxMissing == 2      \* required columns a sheet may lack

----------------------------------------------------------------------------
\* Cells.
Num(n) == [k |-> "num", n |-> n, d |-> 1, s |-> ""]
Frac(n, d) == [k |-> "num", n |-> n, d |-> d, s |-> ""]
NumText(n) == [k |-> "numtext", n |-> n, d |-> 1, s |-> ""]
Text(s) == [k |-> "text", n |-> 0, d |-> 1, s |-> s]
NaN == [k |-> "nan", n |-> 0, d |-> 1, s |-> ""]
Inf == [k |-> "inf", n |-> 0, d |-> 1, s |-> ""]
NegInf == [k |-> "-inf", n |-> 0, d |-> 1, s |-> ""]

\* Column names.
aging_cols == <<"0-30", "31-60", "61-90", "91-120",
                "121-150", "151-180", "181-365", "Above 365">>
required_ar_cols == <<"Customer Name", "Executive Name", "Amount">> \o aging_cols
over90_cols == <<"91-120", "121-150", "151-180", "181-365", "Above 365">>

Range(q) == {q[i] : i \in DOMAIN q}

\* The five pages of the radio widget, in the order of the script.
Pages == <<"Overview Dashboard", "Executive Performance",
           "Customer & Invoice Drilldown", "Action Tracker", "Reports & Export">>

\* Data frames.
NoTable == [def |-> FALSE, cols |-> {}, rows |-> <<>>]
Frame(cols, rows) == [def |-> TRUE, cols |-> cols, rows |-> rows]

\* df[col] = F(row), row by row (adds the column when it is new).
SetCol(row, col, val) ==
    [c \in (DOMAIN row) \cup {col} |-> IF c = col THEN val ELSE row[c]]
AssignCol(df, col, F(_)) ==
    [df EXCEPT !.cols = @ \cup {col},
               !.rows = [i \in DOMAIN df.rows |-> SetCol(df.rows[i], col, F(df.rows[i]))]]

\* str.strip() of a column name; the padded names of the model are listed.
Strip(c) ==
    CASE c = " 61-90 " -> "61-90"
      [] c = "Amount " -> "Amount"
      [] OTHER -> c

\* df.columns = df.columns.str.strip()
StripColumns(t) ==
    LET new == {Strip(c) : c \in t.cols}
        Old(c) == CHOOSE o \in t.cols : Strip(o) = c
    IN  Frame(new, [i \in DOMAIN t.rows |-> [c \in new |-> t.rows[i][Old(c)]]])

\* pd.to_numeric(..., errors="coerce"): numbers and numeric text parse,
\* anything else becomes NaN.
to_numeric(c) ==
    CASE c.k = "num" -> c
      [] c.k = "numtext" -> Num(c.n)
      [] OTHER -> NaN

\* .fillna(0)
fillna(c) == IF c.k = "nan" THEN Num(0) ELSE c

RECURSIVE SumCols(_, _)
\* row[cols].sum() over cells that are numbers (NaN is skipped).
SumCols(row, cols) ==
    IF cols = <<>> THEN 0
    ELSE (IF row[Head(cols)].k = "num" THEN row[Head(cols)].n ELSE 0)
         + SumCols(row, Tail(cols))

RECURSIVE CoerceCols(_, _)
\* ar_df[cols] = ar_df[cols].apply(pd.to_numeric, errors="coerce").fillna(0)
CoerceCols(df, cols) ==
    IF cols = <<>> THEN df
    ELSE LET c == Head(cols)
             Co(row) == fillna(to_numeric(row[c]))
         IN  CoerceCols(AssignCol(df, c, Co), Tail(cols))

\* Variant: takes Amount whenever it is not 0.
TotalOutstandingNonZero(row) ==
    IF row["Amount"].n # 0 THEN row["Amount"] ELSE row["Aging Sum"]

\* np.where(Amount > 0, Amount, Aging Sum)
TotalOutstanding(row) ==
    IF row["Amount"].n > 0 THEN row["Amount"] ELSE row["Aging Sum"]

AgingSum(row) == Num(SumCols(row, aging_cols))
Over90(row) == Num(SumCols(row, over90_cols))

\* Lines 74-90: coercion and the three derived columns.
Derive(df) ==
    LET a == CoerceCols(df, aging_cols)
        b == CoerceCols(a, <<"Amount">>)
        c == AssignCol(b, "Aging Sum", AgingSum)
        d == AssignCol(c, "Total Outstanding", TotalOutstanding)
    IN  AssignCol(d, ">90 Days", Over90)

\* df["Month"] = month_input
AttachMonth(df, m) == LET M(row) == Text(m) IN AssignCol(df, "Month", M)

RECURSIVE LastMissing(_, _)
\* Variant: the last column of `cols` that df lacks.
LastMissing(df, cols) ==
    IF cols = <<>> THEN ""
    ELSE IF cols[Len(cols)] \notin df.cols THEN cols[Len(cols)]
    ELSE LastMissing(df, SubSeq(cols, 1, Len(cols) - 1))

RECURSIVE FirstMissing(_, _)
\* The first column of `cols` that df lacks, or "" when it has them all.
FirstMissing(df, cols) ==
    IF cols = <<>> THEN ""
    ELSE IF Head(cols) \notin df.cols THEN Head(cols)
    ELSE FirstMissing(df, Tail(cols))

\* df[mask]
SelectRows(df, P(_)) == [df EXCEPT !.rows = SelectSeq(@, P)]

\* Variant: rows without an executive name pass the filter too.
FilterByExecKeepMissing(df, name) ==
    LET P(row) == row["Executive Name"] = Text(name) \/ row["Executive Name"].k = "nan"
    IN  SelectRows(df, P)

\* df[df["Executive Name"] == selected_exec]
FilterByExec(df, name) ==
    LET P(row) == row["Executive Name"] = Text(name) IN SelectRows(df, P)

\* Variant: a fixed roster instead of the names of the sheet.
ExecutiveOptionsRoster(df) == {"All", "Asha", "Ravi"}

\* ["All"] + sorted(ar_df["Executive Name"].dropna().unique()), as a set
ExecutiveOptions(df) ==
    {"All"} \cup {df.rows[i]["Executive Name"].s :
                     i \in {j \in DOMAIN df.rows : df.rows[j]["Executive Name"].k = "text"}}

\* Float arithmetic of the Executive Performance view.
Sub(a, b) == IF a.k = "num" /\ b.k = "num" THEN Num(a.n - b.n) ELSE NaN
ReplaceZero(c) == IF c.k = "num" /\ c.n = 0 THEN NaN ELSE c
Div(a, b) ==
    IF a.k # "num" \/ b.k # "num" THEN NaN
    ELSE IF b.n # 0 THEN Frac(a.n, b.n)
    ELSE IF a.n = 0 THEN NaN
    ELSE IF a.n > 0 THEN Inf ELSE NegInf
Times100(c) == IF c.k = "num" THEN Frac(c.n * 100, c.d) ELSE c

Pending(row) == Sub(row["Target Amount"], row["Actual Collected"])

\* Variant: divides by Target Amount as it is.
AchievementNoReplace(row) ==
    fillna(Times100(Div(row["Actual Collected"], row["Target Amount"])))

\* (Actual / Target.replace(0, nan) * 100).fillna(0)
Achievement(row) ==
    fillna(Times100(Div(row["Actual Collected"], ReplaceZero(row["Target Amount"]))))

----------------------------------------------------------------------------
\* The uploaded workbook and the files a session may upload.
NoFile == [present |-> FALSE, readable |-> FALSE,
           ar |-> NoTable, exec |-> NoTable, inv |-> NoTable]
Workbook(a, t, i) == [present |-> TRUE, readable |-> TRUE, ar |-> a, exec |-> t, inv |-> i]
\* A workbook pd.read_excel cannot read (a sheet is missing).
Unreadable == [present |-> TRUE, readable |-> FALSE,
               ar |-> NoTable, exec |-> NoTable, inv |-> NoTable]

SeqsUpTo(S, n) == UNION {[1..m -> S] : m \in 0..n}
AgingSet == Range(aging_cols)
RequiredSet == Range(required_ar_cols)
NumCols == {"Amount"} \cup AgingSet

ExecNames == {Text("Asha"), Text("Ravi"), NaN}

\* One AR_Aging row: names plus a function from NumCols to cells.
ARRow(cust, exec, v) ==
    [c \in RequiredSet |->
        CASE c = "Customer Name" -> cust
          [] c = "Executive Name" -> exec
          [] OTHER -> v[c]]

\* Numeric parts of a row: all 0 but at most MaxNonZero cells.
NonZeroCells ==
    {Num(n) : n \in (-MaxVal..MaxVal) \ {0}} \cup {NumText(1), Text("n/a"), NaN}
ZeroOrNot == NonZeroCells \cup {Num(0)}
num_cols == <<"Amount">> \o aging_cols
\* Position of column c among the columns of S, in sheet order.
RankIn(S, c) ==
    Cardinality({d \in S : (CHOOSE i \in DOMAIN num_cols : num_cols[i] = d)
                              <= (CHOOSE i \in DOMAIN num_cols : num_cols[i] = c)})
NumericParts ==
    {[c \in NumCols |-> IF c \in S THEN q[RankIn(S, c)] ELSE Num(0)] :
        S \in {T \in SUBSET NumCols : Cardinality(T) <= MaxNonZero},
        q \in [1..MaxNonZero -> ZeroOrNot]}

\* The numeric part of the rows of the structural universe:
\* Amount 0, 1 in "0-30" and 1 in "181-365".
PlainPart ==
    [c \in NumCols |-> IF c \in {"0-30", "181-365"} THEN Num(1) ELSE Num(0)]

TargetRow(exec, target, actual) ==
    [c \in {"Executive Name", "Target Amount", "Actual Collected"} |->
        CASE c = "Executive Name" -> exec
          [] c = "Target Amount" -> target
          [] OTHER -> actual]
TargetCols == {"Executive Name", "Target Amount", "Actual Collected"}

InvoiceCols == {"Customer Name", "Invoice No", "Outstanding Amount",
                "Aging Bucket", "Executive Name"}
InvoiceRow(exec, bucket) ==
    [c \in InvoiceCols |->
        CASE c = "Customer Name" -> Text("Acme")
          [] c = "Invoice No" -> Text("INV-1")
          [] c = "Outstanding Amount" -> Num(1)
          [] c = "Aging Bucket" -> Text(bucket)
          [] OTHER -> exec]

\* A sheet with some columns removed.
DropCols(t, gone) ==
    Frame(t.cols \ gone, [i \in DOMAIN t.rows |-> [c \in t.cols \ gone |-> t.rows[i][c]]])
\* A sheet with one column name padded with blanks.
PadCol(t, col, padded) ==
    Frame((t.cols \ {col}) \cup {padded},
          [i \in DOMAIN t.rows |->
              [c \in (t.cols \ {col}) \cup {padded} |->
                  IF c = padded THEN t.rows[i][col] ELSE t.rows[i][c]]])

PlainARRows == {ARRow(Text("Acme"), e, PlainPart) : e \in ExecNames}
PlainARTables == {Frame(RequiredSet, r) : r \in SeqsUpTo(PlainARRows, MaxARRows)}
PlainTargetRows == {TargetRow(e, Num(2), Num(1)) : e \in ExecNames}
PlainTargetTables == {Frame(TargetCols, r) : r \in SeqsUpTo(PlainTargetRows, MaxExecRows)}
PlainInvoiceRows == {InvoiceRow(e, "181-365") : e \in ExecNames}
PlainInvoiceTables == {Frame(InvoiceCols, r) : r \in SeqsUpTo(PlainInvoiceRows, MaxInvRows)}

\* The sheets a file carries beside the one that is varied: one row for
\* each of Asha, Ravi and a missing executive name.
StdAR ==
    Frame(RequiredSet, <<ARRow(Text("Acme"), Text("Asha"), PlainPart),
                         ARRow(Text("Zen"), Text("Ravi"), PlainPart),
                         ARRow(Text("Acme"), NaN, PlainPart)>>)
StdTargets ==
    Frame(TargetCols, <<TargetRow(Text("Asha"), Num(2), Num(1)),
                        TargetRow(Text("Ravi"), Num(0), Num(1)),
                        TargetRow(NaN, Num(2), NaN)>>)
StdInvoices ==
    Frame(InvoiceCols, <<InvoiceRow(Text("Asha"), "0-30"),
                         InvoiceRow(Text("Ravi"), "121-150"),
                         InvoiceRow(NaN, "181-365")>>)
OneRowAR == Frame(RequiredSet, <<ARRow(Text("Acme"), Text("Asha"), PlainPart)>>)

\* AR_Aging sheets that lack up to MaxMissing required columns, with one row
\* or none, and one whose "61-90" header is padded.
BrokenARTables ==
    {DropCols(t, gone) :
        t \in {OneRowAR, Frame(RequiredSet, <<>>)},
        gone \in {G \in SUBSET RequiredSet : Cardinality(G) \in 1..MaxMissing}}
PaddedARTables == {PadCol(OneRowAR, "61-90", " 61-90 ")}

\* The files of the structural universe: one sheet varied at a time.
AppFiles ==
    {Workbook(a, StdTargets, StdInvoices) :
        a \in PlainARTables \cup BrokenARTables \cup PaddedARTables}
    \cup {Workbook(StdAR, t, StdInvoices) : t \in PlainTargetTables}
    \cup {Workbook(StdAR, StdTargets, i) : i \in PlainInvoiceTables}
    \cup {Unreadable}

\* The files of the numeric universe: one row, numeric cells varied.
NumericARTables ==
    {Frame(RequiredSet, <<ARRow(Text("Acme"), Text("Asha"), v)>>) : v \in NumericParts}
TargetCells == {Num(n) : n \in -MaxVal..MaxVal} \cup {NaN}
NumericTargetTables ==
    {Frame(TargetCols, <<TargetRow(Text("Asha"), t, a)>>) : t \in TargetCells, a \in TargetCells}
NumericFiles ==
    {Workbook(a, StdTargets, StdInvoices) : a \in NumericARTables}
    \cup {Workbook(StdAR, t, StdInvoices) : t \in NumericTargetTables}

\* The files of the repetition universe.
RepeatARRows == {ARRow(Text("Acme"), e, PlainPart) : e \in {Text("Asha"), Text("Ravi")}}
RepeatFiles ==
    {Workbook(Frame(RequiredSet, r), StdTargets, StdInvoices) :
        r \in SeqsUpTo(RepeatARRows, MaxARRows)}

MonthInputs == {"", "Jan-2026", "Feb-2026"}

----------------------------------------------------------------------------
\* Messages of the script.
ReadError == [kind |-> "error", text |-> "Error reading Excel. Check sheet names.", col |-> ""]
MonthWarning == [kind |-> "warning", text |-> "Please enter Month to proceed", col |-> ""]
MissingColumnError(c) == [kind |-> "error", text |-> "Missing column in AR_Aging", col |-> c]
NoDataWarning == [kind |-> "warning", text |-> "No data available.", col |-> ""]
UploadPrompt == [kind |-> "info", text |-> "Please upload Excel and enter Month to start.", col |-> ""]

NoBody == [metrics |-> <<>>, table |-> NoTable, styles |-> <<>>]
NoMemo == [set |-> FALSE, file |-> NoFile, month |-> "", selected |-> "",
           ar |-> NoTable, exec |-> NoTable, inv |-> NoTable]

\* st.selectbox: the stored value while it is still an option, else the first option.
Selectbox(value, options) == IF value \in options THEN value ELSE "All"

\* A widget the run did not reach loses its stored value.
WidgetAfterRun == IF executives = {} THEN "All" ELSE sel

Init ==
    /\ uploaded_file = NoFile
    /\ month_input = ""
    /\ page = Pages[1]
    /\ sel = "All"
    /\ pc = "load"
    /\ ar_df = NoTable /\ exec_df = NoTable /\ inv_df = NoTable
    /\ executives = {}
    /\ selected_exec = ""
    /\ messages = {}
    /\ rendered = {}
    /\ body = NoBody
    /\ memo = NoMemo

\* Streamlit re-runs the script from line 1 in a fresh namespace.
Rerun ==
    /\ pc' = "load"
    /\ ar_df' = NoTable /\ exec_df' = NoTable /\ inv_df' = NoTable
    /\ executives' = {}
    /\ selected_exec' = ""
    /\ messages' = {}
    /\ rendered' = {}
    /\ body' = NoBody
    /\ UNCHANGED memo

\* st.stop() after a message.
Stop(msg) ==
    /\ pc' = "idle"
    /\ messages' = messages \cup {msg}
    /\ sel' = "All"

\* User events.  A file goes into the empty uploader or replaces the current
\* one.  Replacing a file while the selector shows "All" starts the same run
\* as removing the file and uploading the next one (script state is fresh and
\* the widget values are equal), so only a replacement under a named
\* selection is a separate event.
Upload(F) ==
    /\ pc = "idle"
    /\ ~uploaded_file.present \/ sel # "All"
    /\ \E f \in F \ {uploaded_file} : uploaded_file' = f
    /\ Rerun
    /\ UNCHANGED <<month_input, page, sel>>

UploadApp == Upload(AppFiles)
UploadNumeric == Upload(NumericFiles)
UploadRepeat == Upload(RepeatFiles)

ClearFile ==
    /\ pc = "idle"
    /\ uploaded_file.present
    /\ uploaded_file' = NoFile
    /\ Rerun
    /\ UNCHANGED <<month_input, page, sel>>

EnterMonth ==
    /\ pc = "idle"
    /\ \E m \in MonthInputs \ {month_input} : month_input' = m
    /\ Rerun
    /\ UNCHANGED <<uploaded_file, page, sel>>

Navigate ==
    /\ pc = "idle"
    /\ \E p \in Range(Pages) \ {page} : page' = p
    /\ Rerun
    /\ UNCHANGED <<uploaded_file, month_input, sel>>

SelectExec ==
    /\ pc = "idle"
    /\ \E e \in executives \ {sel} : sel' = e
    /\ Rerun
    /\ UNCHANGED <<uploaded_file, month_input, page>>

\* pd.read_excel(uploaded_file, sheet_name=...): the sheet, whatever was read before.
read_excel(file, sheet) ==
    CASE sheet = "AR_Aging" -> file.ar
      [] sheet = "Executive_Targets" -> file.exec
      [] OTHER -> file.inv

\* Lines 37-49.
Load ==
    /\ pc = "load"
    /\ IF ~uploaded_file.present
       THEN /\ pc' = "page1"
            /\ UNCHANGED <<ar_df, exec_df, inv_df, messages, sel>>
       ELSE IF ~uploaded_file.readable
       THEN /\ Stop(ReadError)
            /\ UNCHANGED <<ar_df, exec_df, inv_df>>
       ELSE /\ ar_df' = StripColumns(read_excel(uploaded_file, "AR_Aging"))
            /\ exec_df' = StripColumns(read_excel(uploaded_file, "Executive_Targets"))
            /\ inv_df' = StripColumns(read_excel(uploaded_file, "Invoice_Details"))
            /\ pc' = "month"
            /\ UNCHANGED <<messages, sel>>
    /\ UNCHANGED <<uploaded_file, month_input, page, executives, selected_exec,
                   rendered, body, memo>>

\* Lines 51-58.
MonthGate ==
    /\ pc = "month"
    /\ IF month_input = ""
       THEN /\ Stop(MonthWarning)
            /\ UNCHANGED <<ar_df, exec_df, inv_df>>
       ELSE /\ ar_df' = AttachMonth(ar_df, month_input)
            /\ exec_df' = AttachMonth(exec_df, month_input)
            /\ inv_df' = AttachMonth(inv_df, month_input)
            /\ pc' = "validate"
            /\ UNCHANGED <<messages, sel>>
    /\ UNCHANGED <<uploaded_file, month_input, page, executives, selected_exec,
                   rendered, body, memo>>

\* Lines 63-72.
Validate ==
    /\ pc = "validate"
    /\ IF FirstMissing(ar_df, required_ar_cols) # ""
       THEN Stop(MissingColumnError(FirstMissing(ar_df, required_ar_cols)))
       ELSE pc' = "derive" /\ UNCHANGED <<messages, sel>>
    /\ UNCHANGED <<uploaded_file, month_input, page, ar_df, exec_df, inv_df,
                   executives, selected_exec, rendered, body, memo>>

\* Lines 74-90.
DeriveStep ==
    /\ pc = "derive"
    /\ ar_df' = Derive(ar_df)
    /\ pc' = "empty"
    /\ UNCHANGED <<uploaded_file, month_input, page, sel, exec_df, inv_df,
                   executives, selected_exec, messages, rendered, body, memo>>

\* Lines 92-94.
EmptyCheck ==
    /\ pc = "empty"
    /\ IF ar_df.rows = <<>>
       THEN Stop(NoDataWarning)
       ELSE pc' = "filter" /\ UNCHANGED <<messages, sel>>
    /\ UNCHANGED <<uploaded_file, month_input, page, ar_df, exec_df, inv_df,
                   executives, selected_exec, rendered, body, memo>>

\* Variant: the export page is given the unfiltered tables.
FilterStepAllOnExport ==
    /\ pc = "filter"
    /\ LET options == ExecutiveOptions(ar_df)
           chosen == Selectbox(sel, options)
       IN  /\ executives' = options
           /\ selected_exec' = chosen
           /\ sel' = chosen
           /\ IF chosen # "All" /\ page # Pages[5]
              THEN /\ ar_df' = FilterByExec(ar_df, chosen)
                   /\ exec_df' = FilterByExec(exec_df, chosen)
                   /\ inv_df' = FilterByExec(inv_df, chosen)
              ELSE UNCHANGED <<ar_df, exec_df, inv_df>>
    /\ pc' = "page1"
    /\ UNCHANGED <<uploaded_file, month_input, page, messages, rendered, body, memo>>

\* Lines 99-105.
FilterStep ==
    /\ pc = "filter"
    /\ LET options == ExecutiveOptions(ar_df)
           chosen == Selectbox(sel, options)
       IN  /\ executives' = options
           /\ selected_exec' = chosen
           /\ sel' = chosen
           /\ IF chosen # "All"
              THEN /\ ar_df' = FilterByExec(ar_df, chosen)
                   /\ exec_df' = FilterByExec(exec_df, chosen)
                   /\ inv_df' = FilterByExec(inv_df, chosen)
              ELSE UNCHANGED <<ar_df, exec_df, inv_df>>
    /\ pc' = "page1"
    /\ UNCHANGED <<uploaded_file, month_input, page, messages, rendered, body, memo>>

----------------------------------------------------------------------------
\* The views.
RECURSIVE SumRows(_, _)
\* df[col].sum()
SumRows(rows, col) ==
    IF rows = <<>> THEN 0
    ELSE (IF Head(rows)[col].k = "num" THEN Head(rows)[col].n ELSE 0)
         + SumRows(Tail(rows), col)

\* df[col].nunique(): distinct values that are not NaN
NUnique(df, col) ==
    Cardinality({df.rows[i][col] : i \in {j \in DOMAIN df.rows : df.rows[j][col].k # "nan"}})

RECURSIVE InsertDesc(_, _, _)
InsertDesc(sorted, row, col) ==
    IF sorted = <<>> THEN <<row>>
    ELSE IF Head(sorted)[col].n >= row[col].n
         THEN <<Head(sorted)>> \o InsertDesc(Tail(sorted), row, col)
         ELSE <<row>> \o sorted

RECURSIVE SortDesc(_, _)
\* df.sort_values(col, ascending=False), ties in their original order
SortDesc(rows, col) ==
    IF rows = <<>> THEN <<>>
    ELSE InsertDesc(SortDesc(SubSeq(rows, 1, Len(rows) - 1), col), rows[Len(rows)], col)

TopN == 10
\* .head(10)
HeadRows(rows) == SubSeq(rows, 1, IF Len(rows) < TopN THEN Len(rows) ELSE TopN)

\* df[[...]]
Project(df, cols) ==
    Frame(cols, [i \in DOMAIN df.rows |-> [c \in cols |-> df.rows[i][c]]])

\* Lines 114-149: the metrics and the top-10 table.
OverviewBody(df) ==
    LET total_outstanding == SumRows(df.rows, "Total Outstanding")
        overdue_90 == SumRows(df.rows, ">90 Days")
        overdue_pct == IF total_outstanding > 0
                       THEN Frac(overdue_90 * 100, total_outstanding)
                       ELSE Num(0)
        top10 == [df EXCEPT !.rows = HeadRows(SortDesc(@, ">90 Days"))]
    IN  [metrics |-> <<Num(total_outstanding), Num(overdue_90), overdue_pct,
                       Num(NUnique(df, "Customer Name"))>>,
         table |-> Project(top10, {"Customer Name", "Executive Name",
                                   "Total Outstanding", ">90 Days"}),
         styles |-> <<>>]

\* Lines 110-149.
Overview ==
    /\ pc = "page1"
    /\ IF uploaded_file.present /\ page = Pages[1]
       THEN /\ rendered' = rendered \cup {Pages[1]}
            /\ body' = OverviewBody(ar_df)
       ELSE UNCHANGED <<rendered, body>>
    /\ pc' = "page2"
    /\ UNCHANGED <<uploaded_file, month_input, page, sel, ar_df, exec_df, inv_df,
                   executives, selected_exec, messages, memo>>

\* Lines 158-162: the two columns the view writes into exec_df.
WithPerformance(df) ==
    AssignCol(AssignCol(df, "Pending", Pending), "Achievement %", Achievement)

\* Lines 154-182 (the chart is drawn from the same frame).
ExecutivePerformance ==
    /\ pc = "page2"
    /\ IF uploaded_file.present /\ page = Pages[2]
       THEN /\ rendered' = rendered \cup {Pages[2]}
            /\ exec_df' = WithPerformance(exec_df)
            /\ body' = [metrics |-> <<>>, table |-> WithPerformance(exec_df), styles |-> <<>>]
       ELSE UNCHANGED <<rendered, body, exec_df>>
    /\ pc' = "page3"
    /\ UNCHANGED <<uploaded_file, month_input, page, sel, ar_df, inv_df,
                   executives, selected_exec, messages, memo>>

\* sorted(inv_df["Customer Name"].dropna().unique()), as a set
CustomerOptions(df) ==
    {df.rows[i]["Customer Name"].s :
        i \in {j \in DOMAIN df.rows : df.rows[j]["Customer Name"].k = "text"}}

display_cols == {"Customer Name", "Invoice No", "Invoice Date", "Outstanding Amount",
                 "Aging Bucket", "Executive Name", "Remarks"}

\* Lines 196-212 for the customer the selectbox returned ("" = None).
DrilldownBody(df, customer) ==
    LET P(row) == row["Customer Name"] = Text(customer)
        cust_inv == SelectRows(df, P)
    IN  [metrics |-> <<Num(SumRows(cust_inv.rows, "Outstanding Amount")),
                       Num(NUnique(cust_inv, "Invoice No"))>>,
         table |-> Project(cust_inv, display_cols \cap cust_inv.cols),
         styles |-> <<>>]

\* Lines 187-212.  The customer selectbox returns one of its options.
Drilldown ==
    /\ pc = "page3"
    /\ IF uploaded_file.present /\ page = Pages[3]
       THEN /\ rendered' = rendered \cup {Pages[3]}
            /\ \E customer \in (IF CustomerOptions(inv_df) = {} THEN {""}
                                ELSE CustomerOptions(inv_df)) :
                  body' = DrilldownBody(inv_df, customer)
       ELSE UNCHANGED <<rendered, body>>
    /\ pc' = "page4"
    /\ UNCHANGED <<uploaded_file, month_input, page, sel, ar_df, exec_df, inv_df,
                   executives, selected_exec, messages, memo>>

\* Lines 227-232.
highlight(row) ==
    IF row["Aging Bucket"].s \in {"181-365", "Above 365"} THEN "background-color:#ffcccc"
    ELSE IF row["Aging Bucket"].s \in {"151-180", "121-150"} THEN "background-color:#ffe0b3"
    ELSE ""

\* Lines 221-225.
OverdueInvoices(df) ==
    LET P(row) == row["Aging Bucket"].k = "text" /\ row["Aging Bucket"].s \in Range(over90_cols)
    IN  SelectRows(df, P)

\* Variant: the overdue invoices replace inv_df.
ActionTrackerInPlace ==
    /\ pc = "page4"
    /\ IF uploaded_file.present /\ page = Pages[4]
       THEN /\ rendered' = rendered \cup {Pages[4]}
            /\ inv_df' = OverdueInvoices(inv_df)
            /\ body' = [metrics |-> <<>>, table |-> OverdueInvoices(inv_df),
                        styles |-> [i \in DOMAIN OverdueInvoices(inv_df).rows |->
                                       highlight(OverdueInvoices(inv_df).rows[i])]]
       ELSE UNCHANGED <<rendered, body, inv_df>>
    /\ pc' = "page5"
    /\ UNCHANGED <<uploaded_file, month_input, page, sel, ar_df, exec_df,
                   executives, selected_exec, messages, memo>>

\* Lines 217-234.
ActionTracker ==
    /\ pc = "page4"
    /\ IF uploaded_file.present /\ page = Pages[4]
       THEN /\ rendered' = rendered \cup {Pages[4]}
            /\ body' = [metrics |-> <<>>, table |-> OverdueInvoices(inv_df),
                        styles |-> [i \in DOMAIN OverdueInvoices(inv_df).rows |->
                                       highlight(OverdueInvoices(inv_df).rows[i])]]
       ELSE UNCHANGED <<rendered, body>>
    /\ pc' = "page5"
    /\ UNCHANGED <<uploaded_file, month_input, page, sel, ar_df, exec_df, inv_df,
                   executives, selected_exec, messages, memo>>

\* Lines 239-255: the export, or else the prompt; then the run ends.
Export ==
    /\ pc = "page5"
    /\ IF uploaded_file.present /\ page = Pages[5]
       THEN /\ rendered' = rendered \cup {Pages[5]}
            /\ body' = [metrics |-> <<Text("AR_Summary_"), Text(month_input)>>,
                        table |-> ar_df, styles |-> <<>>]
            /\ UNCHANGED messages
       ELSE /\ messages' = messages \cup {UploadPrompt}
            /\ UNCHANGED <<rendered, body>>
    /\ pc' = "idle"
    /\ sel' = WidgetAfterRun
    /\ UNCHANGED <<uploaded_file, month_input, page, ar_df, exec_df, inv_df,
                   executives, selected_exec, memo>>

----------------------------------------------------------------------------
\* Observer: remembers one result of the pipeline, with the input it had,
\* of a run that goes on to render the Executive Performance view.
Remember ==
    /\ pc = "page1"
    /\ uploaded_file.present
    /\ page = Pages[2]
    /\ ~memo.set
    /\ memo' = [set |-> TRUE, file |-> uploaded_file, month |-> month_input,
                selected |-> selected_exec,
                ar |-> ar_df, exec |-> exec_df, inv |-> inv_df]
    /\ UNCHANGED <<uploaded_file, month_input, page, sel, pc, ar_df, exec_df, inv_df,
                   executives, selected_exec, messages, rendered, body>>

Script ==
    \/ Load \/ MonthGate \/ Validate \/ DeriveStep \/ EmptyCheck \/ FilterStep
    \/ Overview \/ ExecutivePerformance \/ Drilldown \/ ActionTracker \/ Export

\* The session over the structural universe.
Next == UploadApp \/ ClearFile \/ EnterMonth \/ Navigate \/ SelectExec \/ Script
Spec == Init /\ [][Next]_vars

\* A session with the month entered and the Executive Performance page
\* chosen, over the numeric universe.
InitNumeric ==
    /\ uploaded_file = NoFile
    /\ month_input = "Jan-2026"
    /\ page = Pages[2]
    /\ sel = "All"
    /\ pc = "load"
    /\ ar_df = NoTable /\ exec_df = NoTable /\ inv_df = NoTable
    /\ executives = {}
    /\ selected_exec = ""
    /\ messages = {}
    /\ rendered = {}
    /\ body = NoBody
    /\ memo = NoMemo
NextNumeric == UploadNumeric \/ ClearFile \/ Script
SpecNumeric == InitNumeric /\ [][NextNumeric]_vars

\* The session over the repetition universe, with the observer.
NextRepeat ==
    UploadRepeat \/ ClearFile \/ EnterMonth \/ Navigate \/ SelectExec \/ Script \/ Remember
SpecRepeat == Init /\ [][NextRepeat]_vars

----------------------------------------------------------------------------
\* Vocabulary of the properties.
DerivedCols == {"Aging Sum", "Total Outstanding", ">90 Days"}
ViewPcs == {"page1", "page2", "page3", "page4", "page5"}
\* The filter step of this run has been taken: the pipeline completed.
PipelineDone == executives # {}
\* The uploaded AR_Aging sheet with trimmed headers, and what it lacks.
RawAR == StripColumns(uploaded_file.ar)
Lacked == RequiredSet \ RawAR.cols
Position(c) == CHOOSE i \in DOMAIN required_ar_cols : required_ar_cols[i] = c
FirstLacked == CHOOSE c \in Lacked : \A d \in Lacked : Position(c) <= Position(d)
\* The value a numeric cell is coerced to.
Coerced(c) == IF c.k \in {"num", "numtext"} THEN Num(c.n) ELSE Num(0)
BucketTotal(r) ==
    r["0-30"].n + r["31-60"].n + r["61-90"].n + r["91-120"].n
    + r["121-150"].n + r["151-180"].n + r["181-365"].n + r["Above 365"].n
OldBucketTotal(r) ==
    r["91-120"].n + r["121-150"].n + r["151-180"].n + r["181-365"].n + r["Above 365"].n
HasDerived == uploaded_file.present /\ DerivedCols \subseteq ar_df.cols

\* C1: in every validated row, after coercion (non-numeric or missing cell
\* = 0), Total Outstanding is Amount when Amount > 0 and the sum of the
\* eight buckets (Aging Sum) otherwise.
C1_TotalOutstanding ==
    /\ HasDerived =>
          \A i \in DOMAIN ar_df.rows :
              LET r == ar_df.rows[i]
              IN  /\ r["Aging Sum"] = Num(BucketTotal(r))
                  /\ r["Total Outstanding"] =
                        IF r["Amount"].n > 0 THEN r["Amount"] ELSE Num(BucketTotal(r))
    /\ pc = "empty" =>
          \A i \in DOMAIN ar_df.rows : \A c \in NumCols :
              ar_df.rows[i][c] = Coerced(RawAR.rows[i][c])

\* C1 witness: Amount 0 with 1 in "0-30" and 1 in "91-120" gave Total Outstanding 2.
C1_Witness ==
    /\ pc = "idle" /\ HasDerived /\ Len(ar_df.rows) = 1
    /\ RawAR.rows[1]["Amount"] = Num(0)
    /\ RawAR.rows[1]["0-30"] = Num(1) /\ RawAR.rows[1]["91-120"] = Num(1)
    /\ ar_df.rows[1]["Total Outstanding"] = Num(2)
    /\ ar_df.rows[1][">90 Days"] = Num(1)

\* C2: in every validated row, whatever the uploaded cells hold, ">90 Days"
\* is the sum of the five oldest coerced buckets and is at most Aging Sum.
C2_Over90 ==
    HasDerived =>
        \A i \in DOMAIN ar_df.rows :
            LET r == ar_df.rows[i]
            IN  /\ r[">90 Days"] = Num(OldBucketTotal(r))
                /\ r[">90 Days"].n <= r["Aging Sum"].n

\* C3: in every row the pipeline produces, whatever the uploaded Amount and
\* bucket cells hold, Total Outstanding is at least 0.
C3_NonNegative ==
    HasDerived =>
        \A i \in DOMAIN ar_df.rows : ar_df.rows[i]["Total Outstanding"].n >= 0

\* C4 as stated: in every interaction with a readable file whose AR_Aging
\* sheet lacks a required column, the run halts with the error naming a
\* missing column, no derived column is computed and no view is rendered.
C4_Original ==
    (pc = "idle" /\ uploaded_file.present /\ uploaded_file.readable /\ Lacked # {}) =>
        /\ \E c \in Lacked : messages = {MissingColumnError(c)}
        /\ DerivedCols \cap ar_df.cols = {}
        /\ rendered = {}

\* C4 as amended: with a readable file whose AR_Aging sheet lacks a required
\* column, no derived column is ever computed and no view rendered; the run
\* halts with the error naming the first missing column (in the order
\* Customer Name, Executive Name, Amount, buckets) when the month is entered,
\* and with the month warning when it is not.
C4_MissingColumn ==
    (uploaded_file.present /\ uploaded_file.readable /\ Lacked # {}) =>
        /\ DerivedCols \cap ar_df.cols = {}
        /\ rendered = {}
        /\ pc \notin {"derive", "empty", "filter"} \cup ViewPcs
        /\ pc = "idle" =>
              messages = {IF month_input = "" THEN MonthWarning
                          ELSE MissingColumnError(FirstLacked)}

\* C4 witness: a sheet lacking "61-90" and "Above 365" halted naming "61-90".
C4_Witness ==
    /\ pc = "idle" /\ uploaded_file.present /\ uploaded_file.readable
    /\ Lacked = {"61-90", "Above 365"}
    /\ messages = {MissingColumnError("61-90")}

\* Number of times row r occurs in the sequence q.
Count(r, q) == Cardinality({i \in DOMAIN q : q[i] = r})
\* new is old filtered to executive s: kept rows carry s, dropped rows do
\* not, and kept plus dropped rows are the rows of old.
Partitioned(old, new, s) ==
    LET Other(r) == r["Executive Name"] # Text(s)
        dropped == SelectSeq(old.rows, Other)
    IN  /\ new.cols = old.cols
        /\ \A i \in DOMAIN new.rows : new.rows[i]["Executive Name"] = Text(s)
        /\ Len(new.rows) + Len(dropped) = Len(old.rows)
        /\ \A r \in Range(old.rows) \cup Range(new.rows) :
              Count(r, new.rows) + Count(r, dropped) = Count(r, old.rows)

\* C5: the filter step, for a selected name other than "All", splits each
\* of the three tables into kept rows (Executive Name = the name) and dropped
\* rows (another or a missing name) that together are the unfiltered table;
\* for "All" it leaves the three tables as they are.
C5_Filter ==
    [][(pc = "filter") =>
          IF selected_exec' = "All"
          THEN ar_df' = ar_df /\ exec_df' = exec_df /\ inv_df' = inv_df
          ELSE /\ Partitioned(ar_df, ar_df', selected_exec')
               /\ Partitioned(exec_df, exec_df', selected_exec')
               /\ Partitioned(inv_df, inv_df', selected_exec')]_vars

\* C5 witness: "Ravi" selected; every table kept one row and dropped others,
\* among them a row with a missing name.
C5_Witness ==
    /\ pc = "page1" /\ selected_exec = "Ravi"
    /\ Len(ar_df.rows) = 1 /\ Len(uploaded_file.ar.rows) = 3
    /\ Len(exec_df.rows) = 1 /\ Len(uploaded_file.exec.rows) = 2
    /\ \E i \in DOMAIN uploaded_file.exec.rows :
          uploaded_file.exec.rows[i]["Executive Name"] = NaN
    /\ Len(inv_df.rows) = 1 /\ Len(uploaded_file.inv.rows) = 3

\* C6: in every row the Executive Performance view shows, Achievement % is
\* the number 0 when Target Amount is 0 or missing, whatever Actual
\* Collected is, and Pending is Target Amount minus Actual Collected
\* (missing when either is missing).
C6_Achievement ==
    (Pages[2] \in rendered) =>
        \A i \in DOMAIN body.table.rows :
            LET r == body.table.rows[i]
                t == r["Target Amount"]
                a == r["Actual Collected"]
            IN  /\ (t.k = "nan" \/ (t.k = "num" /\ t.n = 0)) => r["Achievement %"] = Num(0)
                /\ r["Achievement %"].k = "num"
                /\ r["Pending"] = IF t.k = "num" /\ a.k = "num" THEN Num(t.n - a.n) ELSE NaN

\* C6 witness: a shown row with Target Amount 0 and Actual Collected 1 has
\* Achievement % 0 and Pending -1.
C6_Witness ==
    /\ Pages[2] \in rendered
    /\ \E i \in DOMAIN body.table.rows :
          /\ body.table.rows[i]["Target Amount"] = Num(0)
          /\ body.table.rows[i]["Actual Collected"] = Num(1)
          /\ body.table.rows[i]["Achievement %"] = Num(0)
          /\ body.table.rows[i]["Pending"] = Num(-1)

\* Executive names present in the uploaded AR_Aging sheet.
RawNames ==
    {RawAR.rows[i]["Executive Name"].s :
        i \in {j \in DOMAIN RawAR.rows : RawAR.rows[j]["Executive Name"].k = "text"}}
NoViewOverEmpty == rendered # {} => Len(ar_df.rows) >= 1
SelectableNames ==
    PipelineDone =>
        /\ executives = {"All"} \cup RawNames
        /\ selected_exec \in executives
        /\ Len(ar_df.rows) >= 1

\* C7 as stated: no view is rendered over an empty aging table; a sheet
\* with zero rows halts with the "No data available." warning before any
\* view; a run that reaches the views has at least one row after the filter,
\* the selectable names being "All" plus the names of the sheet.
C7_Original ==
    /\ NoViewOverEmpty
    /\ SelectableNames
    /\ (pc = "idle" /\ uploaded_file.present /\ uploaded_file.readable
           /\ uploaded_file.ar.rows = <<>>) =>
          (messages = {NoDataWarning} /\ rendered = {})

\* C7 as amended: as above, but the zero-row sheet halts with the "No data
\* available." warning only when the month is entered and no required
\* column is missing; otherwise it halts earlier, with the month warning or
\* the missing-column error.  In each case no view is rendered.
C7_NoViewOverEmpty ==
    /\ NoViewOverEmpty
    /\ SelectableNames
    /\ (uploaded_file.present /\ uploaded_file.readable /\ uploaded_file.ar.rows = <<>>) =>
          /\ rendered = {}
          /\ pc \notin {"filter"} \cup ViewPcs
          /\ pc = "idle" =>
                messages = {IF month_input = "" THEN MonthWarning
                            ELSE IF Lacked # {} THEN MissingColumnError(FirstLacked)
                            ELSE NoDataWarning}

\* C7 witness: a sheet with all columns and zero rows, month entered, halted
\* with the warning and no view.
C7_Witness ==
    /\ pc = "idle" /\ uploaded_file.present /\ uploaded_file.readable
    /\ uploaded_file.ar.rows = <<>> /\ Lacked = {}
    /\ messages = {NoDataWarning} /\ rendered = {}

C9_Idempotent ==
    (memo.set /\ pc = "page1" /\ uploaded_file.present
        /\ uploaded_file = memo.file /\ month_input = memo.month
        /\ selected_exec = memo.selected) =>
        <<ar_df, exec_df, inv_df>> = <<memo.ar, memo.exec, memo.inv>>

\* C9 witness: the pipeline has completed again on the remembered input
\* with a named selection, on another page than the remembered run (which
\* rendered the Executive Performance view).
C9_Witness ==
    /\ memo.set /\ pc = "page1" /\ uploaded_file.present
    /\ uploaded_file = memo.file /\ month_input = memo.month
    /\ selected_exec = memo.selected /\ selected_exec = "Ravi"
    /\ page = Pages[5]
    /\ Len(ar_df.rows) = 1 /\ Len(uploaded_file.ar.rows) = 2

\* C10: the upload prompt is shown only when no file is uploaded; when a
\* file is uploaded and the pipeline completed, exactly the view of the
\* selected page is rendered and the prompt is not shown.
C10_Prompt ==
    pc = "idle" =>
        /\ UploadPrompt \in messages => ~uploaded_file.present
        /\ (uploaded_file.present /\ PipelineDone) =>
              (rendered = {page} /\ UploadPrompt \notin messages)

====
